---- MODULE Spec2Model ----
(***************************************************************************)
(* GotoVelocityController (home_robot_hw/nodes/goto_controller.py).        *)
(*                                                                         *)
(* One controller object shared by the rospy callback threads (pose,       *)
(* odometry and goal subscribers, enable / disable / set_yaw_tracking      *)
(* services) and the thread that runs _run_control_loop.  Every attribute  *)
(* read and every attribute write of the control loop is a step of its     *)
(* own, so that the handlers interleave with a tick at every point where   *)
(* the interpreter can switch threads.                                     *)
(*                                                                         *)
(* The xyt arrays are objects: an attribute names an array, and a handler  *)
(* binds the attribute to a freshly built array.  The arrays that          *)
(* _compute_error_pose holds while it runs (loc_arr, goal_arr) are kept    *)
(* beside the attributes: binding an attribute to a new array leaves the   *)
(* array the loop already holds as it was (Rebind).                        *)
(*                                                                         *)
(* Angles are counted in quarter turns (PI quarter turns make pi), so the  *)
(* rotations of the planar error are exact on the integer grid.  The       *)
(* headings are doubles: the difference of two of them is the double at a  *)
(* grid value or the double next below it (raw_ulp), which the modulo of   *)
(* line 124 tells apart at -pi.                                            *)
(***************************************************************************)
EXTENDS Integers, Sequences, FiniteSets, TLC

\* ---------------------------------------------------------------- bounds

\* Control-loop ticks (bodies of the while loop) explored.
MaxTicks == 2

\* Pose, odometry and goal messages delivered, over the three topics, and
\* set_yaw_tracking requests received.
MaxUpdates == 2

\* Largest x and y coordinate of the poses given to _compute_error_pose.
MaxCoord == 1

\* ------------------------------------------------------------- constants

\* np.pi, in quarter turns.
PI == 2

\* self.xyt_goal = None
None == <<>>

\* np.zeros(3)
Zeros == <<0, 0, 0>>

\* Incoming 3-D poses: position (x, y, z) and a rotation about the vertical
\* axis of q quarter turns, q in 0 .. 2*PI - 1.  The two messages delivered to
\* the running controller: M1 is stored as (0, 1, -pi/2) and M2 as (1, 0, pi/2).
M1 == [x |-> 0, y |-> 1, z |-> 1, q |-> 3]
M2 == [x |-> 1, y |-> 0, z |-> 0, q |-> 1]
Msgs == {M1, M2}

\* The last bit of a heading difference: 0 when it is the double of the grid
\* value, -1 when it is the next double below it (-3.1415926535897936 for
\* -pi, the difference of the headings -3.0 and 0.14159265358979356).
Ulps == {-1, 0}

\* Planar poses <<x, y, heading>>, the heading in (-pi, pi].
Poses == { <<x, y, t>> : x \in 0 .. MaxCoord, y \in 0 .. MaxCoord, t \in (1 - PI) .. PI }

VARIABLES
    \* controller attributes
    xyt_loc, xyt_loc_odom,             \* <<x, y, heading>>
    xyt_goal,                          \* <<x, y, heading>> or None
    active, track_yaw, odom_only,
    control_state,                     \* internal state of self.control
    cmd_vel,                           \* last Twist on stretch/cmd_vel
    shutdown,                          \* rospy.is_shutdown()
    response,                          \* the reply the last service call returned
    yaw_calls,                         \* per flag requested, the number of calls
                                       \* of set_yaw_tracking between lines 106
                                       \* and 107
    \* control-loop thread
    pc,                                \* position in _run_control_loop
    loc_arr, goal_arr,                 \* arrays held by _compute_error_pose
    rd_goal, rd_loc,                   \* the elements read from the two arrays
    xyt_err, vw,                       \* error vector, (v_cmd, w_cmd)
    \* counters
    ticks, updates, published, control_calls,
    \* history of the run
    written,                           \* per attribute, the triples stored whole
    tick_guard,                        \* what the guard of this tick saw
    tick_pub, tick_calls,              \* publishes / control calls of this tick
    snap,                              \* state at the time the guard passed
    order,                             \* arrival order of goal and enable
    tick_ready,                        \* a goal update and an enable() had both
                                       \* completed when this tick began, and no
                                       \* disable() ran since
    phase, saved_goal,                 \* disable(); enable() bookkeeping
    tick_yaw, raw_t,                   \* track_yaw as read, heading error before wrap
    raw_ulp                            \* last bit of the heading error before wrap

locals == <<pc, loc_arr, goal_arr, rd_goal, rd_loc, xyt_err, vw>>
outputs == <<control_state, cmd_vel, published, control_calls>>
tickhist == <<tick_guard, tick_pub, tick_calls, snap, tick_ready, tick_yaw, raw_t, raw_ulp,
              raw_ulp>>
vars == <<xyt_loc, xyt_loc_odom, xyt_goal, active, track_yaw, odom_only,
          control_state, cmd_vel, shutdown, pc, loc_arr, goal_arr,
          rd_goal, rd_loc, xyt_err, vw, ticks, updates, published,
          control_calls, written, tick_guard, tick_pub, tick_calls, snap, order,
          tick_ready, phase, saved_goal, tick_yaw, raw_t, raw_ulp, response,
          yaw_calls>>

\* ------------------------------------------------------- planar geometry

Sgn(n) == IF n > 0 THEN 1 ELSE IF n < 0 THEN -1 ELSE 0

\* cos and sin of k quarter turns.
Cos(k) == CASE k % (2 * PI) = 0 -> 1 [] k % (2 * PI) = PI -> -1 [] OTHER -> 0
Sin(k) == CASE k % (2 * PI) = 1 -> 1 [] k % (2 * PI) = PI + 1 -> -1 [] OTHER -> 0

\* sophus2xyt(sp.SE3(matrix_from_pose_msg(msg))): the planar pose of a 3-D
\* pose.  z is dropped and the yaw is taken in (-pi, pi].
sophus2xyt(m) == <<m.x, m.y, IF m.q > PI THEN m.q - 2 * PI ELSE m.q>>

\* xyt_global_to_base(XYT, current_pose): XYT in the base frame of
\* current_pose; the position difference rotated by the inverse of the
\* current heading, and the heading difference.
xyt_rotated_forward(XYT, cur) ==
    LET dx == XYT[1] - cur[1]
        dy == XYT[2] - cur[2]
    IN  << Cos(cur[3]) * dx - Sin(cur[3]) * dy,
           Cos(cur[3]) * dy + Sin(cur[3]) * dx,
           XYT[3] - cur[3] >>
xyt_global_to_base(XYT, cur) ==
    LET dx == XYT[1] - cur[1]
        dy == XYT[2] - cur[2]
    IN  << Cos(cur[3]) * dx + Sin(cur[3]) * dy,
           Cos(cur[3]) * dy - Sin(cur[3]) * dx,
           XYT[3] - cur[3] >>

\* (xyt_err[2] + np.pi) % (2 * np.pi) - np.pi, for the heading difference e
\* with last bit u, a difference of two headings in (-pi, pi].  The modulo
\* takes the sign of 2 * np.pi, so a difference of exactly pi or exactly -pi
\* gives -pi.  For the double next below -pi the sum e + np.pi is a tiny
\* negative double, the modulo rounds 2 * np.pi plus that sum to 2 * np.pi
\* itself, and the result is +pi.  Next below any other grid value the
\* result is the one of the grid value, to the last bits.
WrapAngle(e, u) ==
    IF u < 0 /\ e = 0 - PI THEN PI ELSE ((e + PI) % (2 * PI)) - PI

\* Lines 121-124: the heading policy applied to the error vector.
YawGateAll(err, ty, u) ==
    IF ~ty THEN Zeros ELSE [err EXCEPT ![3] = WrapAngle(err[3], u)]
YawGate(err, ty, u) ==
    IF ~ty THEN [err EXCEPT ![3] = 0] ELSE [err EXCEPT ![3] = WrapAngle(err[3], u)]

\* _compute_error_pose on the two arrays it read.
ComputeErrorPose(goal, loc, ty, u) == YawGate(xyt_global_to_base(goal, loc), ty, u)

\* Twist with linear.x = v_m and angular.z = w_r.
TwistSwapped(v_m, w_r) == [linear_x |-> w_r, angular_z |-> v_m]
Twist(v_m, w_r) == [linear_x |-> v_m, angular_z |-> w_r]

\* TriggerResponse(success, message), SetBoolResponse(success, message)
TriggerResponse(ok, msg) == [success |-> ok, message |-> msg]
SetBoolResponse(ok, msg) == [success |-> ok, message |-> msg]

\* self.control(xyt_err): the velocity law.  It keeps the pair it returned
\* last and moves each velocity one step towards the sign of the error.
Control(st, err) ==
    <<st[1] + Sgn(Sgn(err[1]) - st[1]), st[2] + Sgn(Sgn(err[3]) - st[2])>>

\* --------------------------------------------------------------- arrays

\* _compute_error_pose holds the feedback array from line 117 until it
\* returns (the local xyt_loc); the goal array is held from the evaluation of
\* the argument at line 118 until xyt_global_to_base returns.
HoldsLoc == pc \in {"load_goal", "base_x", "base_y", "base_t", "yaw"}
HoldsGoal == pc \in {"base_x", "base_y", "base_t"}

\* self.<attr> = sophus2xyt(...) while the loop holds the array the attribute
\* named before: the attribute names a new array p, the held one is untouched.
RebindInPlace(held, p) == p
Rebind(held, p) == held

\* ----------------------------------------------------------------- state

\* __init__ (lines 35-55); main() runs the loop with the callbacks registered.
Init ==
    /\ xyt_loc = Zeros
    /\ xyt_loc_odom = Zeros
    /\ xyt_goal = None
    /\ active = FALSE
    /\ track_yaw = TRUE
    /\ odom_only \in BOOLEAN
    /\ control_state = <<0, 0>>
    /\ cmd_vel = Twist(0, 0)
    /\ shutdown = FALSE
    /\ response = None
    /\ yaw_calls = [data \in BOOLEAN |-> 0]
    /\ pc = "while"
    /\ loc_arr = Zeros
    /\ goal_arr = Zeros
    /\ rd_goal = Zeros
    /\ rd_loc = Zeros
    /\ xyt_err = Zeros
    /\ vw = <<0, 0>>
    /\ ticks = 0
    /\ updates = 0
    /\ published = 0
    /\ control_calls = 0
    /\ written = [loc |-> {Zeros}, odom |-> {Zeros}, goal |-> {}]
    /\ tick_guard = "none"
    /\ tick_pub = 0
    /\ tick_calls = 0
    /\ snap = [goal |-> Zeros, fb |-> Zeros, yaw |-> TRUE]
    /\ order = "none"
    /\ tick_ready = FALSE
    /\ phase = "none"
    /\ saved_goal = Zeros
    /\ tick_yaw = TRUE
    /\ raw_t = 0
    /\ raw_ulp = 0

\* ------------------------------------------------------- input handlers

\* _pose_update_callback (lines 57-59)
PoseUpdateBoth(m) ==
    /\ ~shutdown
    /\ updates < MaxUpdates
    /\ updates' = updates + 1
    /\ xyt_loc' = sophus2xyt(m)
    /\ xyt_loc_odom' = sophus2xyt(m)
    /\ loc_arr' = IF HoldsLoc /\ ~odom_only
                  THEN Rebind(loc_arr, sophus2xyt(m)) ELSE loc_arr
    /\ written' = [written EXCEPT !.loc = @ \cup {sophus2xyt(m)},
                                  !.odom = @ \cup {sophus2xyt(m)}]
    /\ UNCHANGED <<xyt_goal, active, track_yaw, odom_only,
                   shutdown, pc, goal_arr, rd_goal, rd_loc, xyt_err, vw, outputs,
                   ticks, tickhist, order, phase, saved_goal, response,
                   yaw_calls>>
PoseUpdate(m) ==
    /\ ~shutdown
    /\ updates < MaxUpdates
    /\ updates' = updates + 1
    /\ xyt_loc' = sophus2xyt(m)
    /\ loc_arr' = IF HoldsLoc /\ ~odom_only
                  THEN Rebind(loc_arr, sophus2xyt(m)) ELSE loc_arr
    /\ written' = [written EXCEPT !.loc = @ \cup {sophus2xyt(m)}]
    /\ UNCHANGED <<xyt_loc_odom, xyt_goal, active, track_yaw, odom_only,
                   shutdown, pc, goal_arr, rd_goal, rd_loc, xyt_err, vw, outputs,
                   ticks, tickhist, order, phase, saved_goal, response,
                   yaw_calls>>

\* _odom_update_callback (lines 61-63)
OdomUpdate(m) ==
    /\ ~shutdown
    /\ updates < MaxUpdates
    /\ updates' = updates + 1
    /\ xyt_loc_odom' = sophus2xyt(m)
    /\ loc_arr' = IF HoldsLoc /\ odom_only
                  THEN Rebind(loc_arr, sophus2xyt(m)) ELSE loc_arr
    /\ written' = [written EXCEPT !.odom = @ \cup {sophus2xyt(m)}]
    /\ UNCHANGED <<xyt_loc, xyt_goal, active, track_yaw, odom_only,
                   shutdown, pc, goal_arr, rd_goal, rd_loc, xyt_err, vw, outputs,
                   ticks, tickhist, order, phase, saved_goal, response,
                   yaw_calls>>

\* _goal_update_callback (lines 65-89): the goal is replaced.  The call of
\* goal_visualizer that follows reads xyt_loc and xyt_loc_odom and publishes a
\* marker; it writes no attribute of the controller.
GoalUpdateIfActive(m) ==
    /\ ~shutdown
    /\ updates < MaxUpdates
    /\ updates' = updates + 1
    /\ xyt_goal' = IF active THEN sophus2xyt(m) ELSE xyt_goal
    /\ goal_arr' = IF HoldsGoal THEN Rebind(goal_arr, sophus2xyt(m)) ELSE goal_arr
    /\ written' = [written EXCEPT !.goal = @ \cup {sophus2xyt(m)}]
    /\ order' = CASE order = "none" -> "goal"
                  [] order = "enable" -> "enable_goal"
                  [] OTHER -> order
    /\ phase' = "none"
    /\ saved_goal' = Zeros
    /\ UNCHANGED <<xyt_loc, xyt_loc_odom, active, track_yaw, odom_only,
                   shutdown, pc, loc_arr, rd_goal, rd_loc, xyt_err, vw, outputs,
                   ticks, tickhist, response, yaw_calls>>
GoalUpdate(m) ==
    /\ ~shutdown
    /\ updates < MaxUpdates
    /\ updates' = updates + 1
    /\ xyt_goal' = sophus2xyt(m)
    /\ goal_arr' = IF HoldsGoal THEN Rebind(goal_arr, sophus2xyt(m)) ELSE goal_arr
    /\ written' = [written EXCEPT !.goal = @ \cup {sophus2xyt(m)}]
    /\ order' = CASE order = "none" -> "goal"
                  [] order = "enable" -> "enable_goal"
                  [] OTHER -> order
    /\ phase' = "none"
    /\ saved_goal' = Zeros
    /\ UNCHANGED <<xyt_loc, xyt_loc_odom, active, track_yaw, odom_only,
                   shutdown, pc, loc_arr, rd_goal, rd_loc, xyt_err, vw, outputs,
                   ticks, tickhist, response, yaw_calls>>

\* _enable_service (lines 91-96)
EnableToggle ==
    /\ ~shutdown
    /\ active' = ~active
    /\ response' = TriggerResponse(TRUE, "Goto controller is now RUNNING")
    /\ order' = CASE order = "none" -> "enable"
                  [] order = "goal" -> "goal_enable"
                  [] OTHER -> order
    /\ phase' = IF phase = "disabled" THEN "reenabled" ELSE phase
    /\ UNCHANGED <<xyt_loc, xyt_loc_odom, xyt_goal, track_yaw, odom_only,
                   shutdown, locals, outputs, ticks, updates, written,
                   tickhist, saved_goal, yaw_calls>>
EnableIfGoal ==
    /\ ~shutdown
    /\ active' = (xyt_goal # None)
    /\ order' = CASE order = "none" -> "enable"
                  [] order = "goal" -> "goal_enable"
                  [] OTHER -> order
    /\ response' = TriggerResponse(TRUE, "Goto controller is now RUNNING")
    /\ phase' = IF phase = "disabled" THEN "reenabled" ELSE phase
    /\ UNCHANGED <<xyt_loc, xyt_loc_odom, xyt_goal, track_yaw, odom_only,
                   shutdown, locals, outputs, ticks, updates, written,
                   tickhist, saved_goal, yaw_calls>>
EnableService ==
    /\ ~shutdown
    /\ active' = TRUE
    /\ order' = CASE order = "none" -> "enable"
                  [] order = "goal" -> "goal_enable"
                  [] OTHER -> order
    /\ response' = TriggerResponse(TRUE, "Goto controller is now RUNNING")
    /\ phase' = IF phase = "disabled" THEN "reenabled" ELSE phase
    /\ UNCHANGED <<xyt_loc, xyt_loc_odom, xyt_goal, track_yaw, odom_only,
                   shutdown, locals, outputs, ticks, updates, written,
                   tickhist, saved_goal, yaw_calls>>

\* _disable_service (lines 98-103)
DisableAndStop ==
    /\ ~shutdown
    /\ active' = FALSE
    /\ cmd_vel' = Twist(0, 0)
    /\ published' = published + 1
    /\ response' = TriggerResponse(TRUE, "Goto controller is now STOPPED")
    /\ order' = CASE order = "enable" -> "none"
                  [] order \in {"goal_enable", "enable_goal"} -> "goal"
                  [] OTHER -> order
    /\ tick_ready' = FALSE
    /\ phase' = IF xyt_goal = None THEN "none" ELSE "disabled"
    /\ saved_goal' = IF xyt_goal = None THEN Zeros ELSE xyt_goal
    /\ UNCHANGED <<xyt_loc, xyt_loc_odom, xyt_goal, track_yaw, odom_only,
                   shutdown, locals, control_state, control_calls, ticks, updates,
                   written, tick_guard, tick_pub, tick_calls, snap, tick_yaw, raw_t, raw_ulp,
                   yaw_calls>>
DisableClearsGoal ==
    /\ ~shutdown
    /\ active' = FALSE
    /\ xyt_goal' = None
    /\ order' = CASE order = "enable" -> "none"
                  [] order \in {"goal_enable", "enable_goal"} -> "goal"
                  [] OTHER -> order
    /\ response' = TriggerResponse(TRUE, "Goto controller is now STOPPED")
    /\ tick_ready' = FALSE
    /\ phase' = IF xyt_goal = None THEN "none" ELSE "disabled"
    /\ saved_goal' = IF xyt_goal = None THEN Zeros ELSE xyt_goal
    /\ UNCHANGED <<xyt_loc, xyt_loc_odom, track_yaw, odom_only,
                   shutdown, locals, outputs, ticks, updates, written,
                   tick_guard, tick_pub, tick_calls, snap, tick_yaw, raw_t, raw_ulp,
                   yaw_calls>>
DisableService ==
    /\ ~shutdown
    /\ active' = FALSE
    /\ order' = CASE order = "enable" -> "none"
                  [] order \in {"goal_enable", "enable_goal"} -> "goal"
                  [] OTHER -> order
    /\ response' = TriggerResponse(TRUE, "Goto controller is now STOPPED")
    /\ tick_ready' = FALSE
    /\ phase' = IF xyt_goal = None THEN "none" ELSE "disabled"
    /\ saved_goal' = IF xyt_goal = None THEN Zeros ELSE xyt_goal
    /\ UNCHANGED <<xyt_loc, xyt_loc_odom, xyt_goal, track_yaw, odom_only,
                   shutdown, locals, outputs, ticks, updates, written,
                   tick_guard, tick_pub, tick_calls, snap, tick_yaw, raw_t, raw_ulp,
                   yaw_calls>>

\* _set_yaw_tracking_service, line 106: self.track_yaw = request.data.  The
\* service calls run in threads of their own, so a call can be between this
\* line and the next while other calls of the service run, whatever flag they
\* ask for.  The requests count as inputs, with the messages.
SetYawAndActive(data) ==
    /\ ~shutdown
    /\ updates < MaxUpdates
    /\ updates' = updates + 1
    /\ track_yaw' = data
    /\ active' = data
    /\ yaw_calls' = [yaw_calls EXCEPT ![data] = @ + 1]
    /\ UNCHANGED <<xyt_loc, xyt_loc_odom, xyt_goal, odom_only, response,
                   shutdown, locals, outputs, ticks, written,
                   tickhist, order, phase, saved_goal>>
SetYawTrackingService(data) ==
    /\ ~shutdown
    /\ updates < MaxUpdates
    /\ updates' = updates + 1
    /\ track_yaw' = data
    /\ yaw_calls' = [yaw_calls EXCEPT ![data] = @ + 1]
    /\ UNCHANGED <<xyt_loc, xyt_loc_odom, xyt_goal, active, odom_only, response,
                   shutdown, locals, outputs, ticks, written,
                   tickhist, order, phase, saved_goal>>

\* _set_yaw_tracking_service, lines 107-111: self.track_yaw is read again for
\* the message, and the call that asked for data returns its reply.
SetYawTrackingReply(data) ==
    /\ ~shutdown
    /\ yaw_calls[data] > 0
    /\ response' = SetBoolResponse(TRUE, IF track_yaw THEN "Yaw tracking is now ON"
                                          ELSE "Yaw tracking is now OFF")
    /\ yaw_calls' = [yaw_calls EXCEPT ![data] = @ - 1]
    /\ UNCHANGED <<xyt_loc, xyt_loc_odom, xyt_goal, active, track_yaw, odom_only,
                   shutdown, locals, outputs, ticks, updates, written,
                   tickhist, order, phase, saved_goal>>

\* --------------------------------------------------------- control loop

\* What no step of the loop writes.
attrs == <<xyt_loc, xyt_loc_odom, xyt_goal, active, track_yaw, odom_only,
           updates, written, order, saved_goal, response, yaw_calls>>
shared == <<attrs, shutdown>>

\* Line 117: the pose estimate that feeds the error.
FeedbackRefOther == IF odom_only THEN xyt_loc ELSE xyt_loc_odom
FeedbackRef == IF odom_only THEN xyt_loc_odom ELSE xyt_loc

\* Line 138, first operand: self.active
SeesActiveAlways(a) == TRUE
SeesActive(a) == a

\* Line 138, second operand: self.xyt_goal is not None
SeesGoal(g) == g # None

\* Line 137: while not rospy.is_shutdown(), with the process stopped from
\* outside.  The loop condition is the only reader of the flag, so the stop
\* is taken at the test that sees it; the callbacks end with the process.
LoopExit ==
    /\ pc = "while"
    /\ ~shutdown
    /\ shutdown' = TRUE
    /\ pc' = "exit"
    /\ UNCHANGED <<attrs, loc_arr, goal_arr, rd_goal, rd_loc, xyt_err, vw,
                   outputs, ticks, tickhist, phase>>

\* Line 137: while not rospy.is_shutdown(), a new tick begins.
LoopTick ==
    /\ pc = "while"
    /\ ~shutdown
    /\ ticks < MaxTicks
    /\ pc' = "guard_active"
    /\ ticks' = ticks + 1
    /\ tick_ready' = (order \in {"goal_enable", "enable_goal"})
    /\ phase' = IF phase = "reenabled" THEN "ticking" ELSE phase
    /\ UNCHANGED <<shared, loc_arr, goal_arr, rd_goal, rd_loc, xyt_err, vw,
                   outputs, tick_guard, tick_pub, tick_calls, snap, tick_yaw, raw_t, raw_ulp>>

\* Line 138: if self.active ...
LoopGuardActive ==
    /\ pc = "guard_active"
    /\ pc' = IF SeesActive(active) THEN "guard_goal" ELSE "sleep"
    /\ tick_guard' = IF active THEN "none" ELSE "idle"
    /\ UNCHANGED <<shared, loc_arr, goal_arr, rd_goal, rd_loc, xyt_err, vw,
                   outputs, ticks, tick_pub, tick_calls, snap, tick_ready,
                   tick_yaw, raw_t, raw_ulp, phase>>

\* Line 138: ... and self.xyt_goal is not None
LoopGuardGoal ==
    /\ pc = "guard_goal"
    /\ pc' = IF SeesGoal(xyt_goal) THEN "select" ELSE "sleep"
    /\ tick_guard' = IF tick_guard = "idle" \/ xyt_goal = None
                      THEN "idle" ELSE "tracking"
    /\ snap' = IF xyt_goal = None THEN snap
               ELSE [goal |-> xyt_goal, fb |-> FeedbackRef,
                     yaw |-> track_yaw]
    /\ UNCHANGED <<shared, loc_arr, goal_arr, rd_goal, rd_loc, xyt_err, vw,
                   outputs, ticks, tick_pub, tick_calls, tick_ready,
                   tick_yaw, raw_t, raw_ulp, phase>>

\* Line 117: xyt_loc = self.xyt_loc_odom if self.odom_only else self.xyt_loc
LoopSelect ==
    /\ pc = "select"
    /\ loc_arr' = FeedbackRef
    /\ pc' = "load_goal"
    /\ UNCHANGED <<shared, goal_arr, rd_goal, rd_loc, xyt_err, vw,
                   outputs, ticks, tickhist, phase>>

\* Line 118: the argument self.xyt_goal is evaluated.
LoopLoadGoal ==
    /\ pc = "load_goal"
    /\ goal_arr' = xyt_goal
    /\ pc' = "base_x"
    /\ UNCHANGED <<shared, loc_arr, rd_goal, rd_loc, xyt_err, vw,
                   outputs, ticks, tickhist, phase>>

\* Line 118, inside xyt_global_to_base: the x elements of both arrays.
LoopBaseX ==
    /\ pc = "base_x"
    /\ rd_goal' = [rd_goal EXCEPT ![1] = goal_arr[1]]
    /\ rd_loc' = [rd_loc EXCEPT ![1] = loc_arr[1]]
    /\ pc' = "base_y"
    /\ UNCHANGED <<shared, loc_arr, goal_arr, xyt_err, vw,
                   outputs, ticks, tickhist, phase>>

\* Line 118, inside xyt_global_to_base: the y elements of both arrays.
LoopBaseY ==
    /\ pc = "base_y"
    /\ rd_goal' = [rd_goal EXCEPT ![2] = goal_arr[2]]
    /\ rd_loc' = [rd_loc EXCEPT ![2] = loc_arr[2]]
    /\ pc' = "base_t"
    /\ UNCHANGED <<shared, loc_arr, goal_arr, xyt_err, vw,
                   outputs, ticks, tickhist, phase>>

\* Line 118, inside xyt_global_to_base: the headings, and the result, the
\* heading difference with either last bit; xyt_global_to_base returns and
\* the goal array is no longer held.
LoopBaseT ==
    /\ pc = "base_t"
    /\ rd_goal' = [rd_goal EXCEPT ![3] = goal_arr[3]]
    /\ rd_loc' = [rd_loc EXCEPT ![3] = loc_arr[3]]
    /\ xyt_err' = xyt_global_to_base(rd_goal', rd_loc')
    /\ raw_t' = xyt_err'[3]
    /\ \E u \in Ulps : raw_ulp' = u
    /\ goal_arr' = Zeros
    /\ pc' = "yaw"
    /\ UNCHANGED <<shared, loc_arr, vw, outputs, ticks,
                   tick_guard, tick_pub, tick_calls, snap, tick_ready, tick_yaw,
                   phase>>

\* Lines 121-126: self.track_yaw is read, the heading policy is applied and
\* _compute_error_pose returns, dropping the feedback array it held.
LoopYaw ==
    /\ pc = "yaw"
    /\ tick_yaw' = track_yaw
    /\ xyt_err' = YawGate(xyt_err, track_yaw, raw_ulp)
    /\ loc_arr' = Zeros
    /\ pc' = "control"
    /\ UNCHANGED <<shared, goal_arr, rd_goal, rd_loc, vw, outputs, ticks,
                   tick_guard, tick_pub, tick_calls, snap, tick_ready, raw_t, raw_ulp,
                   phase>>

\* Line 143: v_cmd, w_cmd = self.control(xyt_err)
LoopControl ==
    /\ pc = "control"
    /\ vw' = Control(control_state, xyt_err)
    /\ control_state' = Control(control_state, xyt_err)
    /\ control_calls' = control_calls + 1
    /\ tick_calls' = tick_calls + 1
    /\ snap' = [goal |-> Zeros, fb |-> Zeros, yaw |-> TRUE]
    /\ pc' = "publish"
    /\ UNCHANGED <<shared, loc_arr, goal_arr, rd_goal, rd_loc, xyt_err,
                   cmd_vel, published, ticks, tick_guard, tick_pub,
                   tick_ready, tick_yaw, raw_t, raw_ulp, phase>>

\* Lines 146, 128-132: self._set_velocity(v_cmd, w_cmd)
LoopPublishTwice ==
    /\ pc = "publish"
    /\ cmd_vel' = Twist(vw[1], vw[2])
    /\ published' = published + 2
    /\ tick_pub' = tick_pub + 2
    /\ pc' = "sleep"
    /\ UNCHANGED <<shared, loc_arr, goal_arr, rd_goal, rd_loc, xyt_err, vw,
                   control_state, control_calls, ticks, tick_guard, tick_calls,
                   snap, tick_ready, tick_yaw, raw_t, raw_ulp, phase>>
LoopPublish ==
    /\ pc = "publish"
    /\ cmd_vel' = Twist(vw[1], vw[2])
    /\ published' = published + 1
    /\ tick_pub' = tick_pub + 1
    /\ pc' = "sleep"
    /\ UNCHANGED <<shared, loc_arr, goal_arr, rd_goal, rd_loc, xyt_err, vw,
                   control_state, control_calls, ticks, tick_guard, tick_calls,
                   snap, tick_ready, tick_yaw, raw_t, raw_ulp, phase>>

\* Line 149: rate.sleep(); the locals of the finished tick are gone.
LoopSleepOnce ==
    /\ pc = "sleep"
    /\ pc' = "exit"
    /\ rd_goal' = Zeros
    /\ rd_loc' = Zeros
    /\ xyt_err' = Zeros
    /\ vw' = <<0, 0>>
    /\ tick_guard' = "none"
    /\ tick_pub' = 0
    /\ tick_calls' = 0
    /\ snap' = [goal |-> Zeros, fb |-> Zeros, yaw |-> TRUE]
    /\ tick_ready' = FALSE
    /\ tick_yaw' = TRUE
    /\ raw_t' = 0
    /\ raw_ulp' = 0
    /\ UNCHANGED <<shared, loc_arr, goal_arr, outputs, ticks, phase>>
LoopSleep ==
    /\ pc = "sleep"
    /\ pc' = "while"
    /\ rd_goal' = Zeros
    /\ rd_loc' = Zeros
    /\ xyt_err' = Zeros
    /\ vw' = <<0, 0>>
    /\ tick_guard' = "none"
    /\ tick_pub' = 0
    /\ tick_calls' = 0
    /\ snap' = [goal |-> Zeros, fb |-> Zeros, yaw |-> TRUE]
    /\ tick_ready' = FALSE
    /\ tick_yaw' = TRUE
    /\ raw_t' = 0
    /\ raw_ulp' = 0
    /\ UNCHANGED <<shared, loc_arr, goal_arr, outputs, ticks, phase>>

\* --------------------------------------------------------- specification

Next ==
    \/ \E m \in Msgs : PoseUpdate(m)
    \/ \E m \in Msgs : OdomUpdate(m)
    \/ \E m \in Msgs : GoalUpdate(m)
    \/ EnableService
    \/ DisableService
    \/ \E data \in BOOLEAN : SetYawTrackingService(data)
    \/ \E data \in BOOLEAN : SetYawTrackingReply(data)
    \/ LoopExit
    \/ LoopTick
    \/ LoopGuardActive
    \/ LoopGuardGoal
    \/ LoopSelect
    \/ LoopLoadGoal
    \/ LoopBaseX
    \/ LoopBaseY
    \/ LoopBaseT
    \/ LoopYaw
    \/ LoopControl
    \/ LoopPublish
    \/ LoopSleep

Spec == Init /\ [][Next]_vars

\* ------------------------------------------------ the loop without end

\* Line 137: the while loop has no bound of its own.  When MaxTicks ticks have
\* been counted the count of ticks, publishes and control calls starts again
\* from zero; the controller and the loop are left as they are.
LoopCountAgain ==
    /\ pc = "while"
    /\ ~shutdown
    /\ ticks = MaxTicks
    /\ ticks' = 0
    /\ published' = 0
    /\ control_calls' = 0
    /\ UNCHANGED <<shared, locals, control_state, cmd_vel, tickhist, phase>>

\* The steps of the thread that runs _run_control_loop, short of its exit.
LoopStep ==
    \/ LoopTick
    \/ LoopGuardActive
    \/ LoopGuardGoal
    \/ LoopSelect
    \/ LoopLoadGoal
    \/ LoopBaseX
    \/ LoopBaseY
    \/ LoopBaseT
    \/ LoopYaw
    \/ LoopControl
    \/ LoopPublish
    \/ LoopSleep
    \/ LoopCountAgain

NextLive ==
    \/ Next
    \/ LoopCountAgain

\* The controller after construction and the delivery of one goal message
\* MaxUpdates - 1 times over, the loop at the test of its first tick: a goal
\* is stored and one more input, a message on any topic or a set_yaw_tracking
\* request, is still to come.
InitLive ==
    /\ xyt_loc = Zeros
    /\ xyt_loc_odom = Zeros
    /\ xyt_goal \in { sophus2xyt(m) : m \in Msgs }
    /\ active = FALSE
    /\ track_yaw = TRUE
    /\ odom_only \in BOOLEAN
    /\ control_state = <<0, 0>>
    /\ cmd_vel = Twist(0, 0)
    /\ shutdown = FALSE
    /\ response = None
    /\ yaw_calls = [data \in BOOLEAN |-> 0]
    /\ pc = "while"
    /\ loc_arr = Zeros
    /\ goal_arr = Zeros
    /\ rd_goal = Zeros
    /\ rd_loc = Zeros
    /\ xyt_err = Zeros
    /\ vw = <<0, 0>>
    /\ ticks = 0
    /\ updates = MaxUpdates - 1
    /\ published = 0
    /\ control_calls = 0
    /\ written = [loc |-> {Zeros}, odom |-> {Zeros}, goal |-> {xyt_goal}]
    /\ tick_guard = "none"
    /\ tick_pub = 0
    /\ tick_calls = 0
    /\ snap = [goal |-> Zeros, fb |-> Zeros, yaw |-> TRUE]
    /\ order = "goal"
    /\ tick_ready = FALSE
    /\ phase = "none"
    /\ saved_goal = Zeros
    /\ tick_yaw = TRUE
    /\ raw_t = 0
    /\ raw_ulp = 0

\* The control-loop thread is scheduled again and again (rate.sleep() returns
\* and the interpreter switches threads); the callbacks owe nothing.
SpecLive == InitLive /\ [][NextLive]_vars /\ WF_vars(LoopStep)

\* -------------------------------------------- _compute_error_pose alone

\* The controller at line 140 of a Tracking tick, about to call
\* _compute_error_pose, with any goal, any feedback pose and either setting
\* of the two flags; the estimate that is not selected is left at zero.
InitError ==
    /\ odom_only \in BOOLEAN
    /\ track_yaw \in BOOLEAN
    /\ xyt_goal \in Poses
    /\ \E fb \in Poses :
          /\ xyt_loc = (IF odom_only THEN Zeros ELSE fb)
          /\ xyt_loc_odom = (IF odom_only THEN fb ELSE Zeros)
          /\ written = [loc |-> {Zeros, xyt_loc}, odom |-> {Zeros, xyt_loc_odom},
                        goal |-> {xyt_goal}]
          /\ snap = [goal |-> xyt_goal, fb |-> fb, yaw |-> track_yaw]
    /\ active = TRUE
    /\ control_state = <<0, 0>>
    /\ cmd_vel = Twist(0, 0)
    /\ shutdown = FALSE
    /\ response = TriggerResponse(TRUE, "Goto controller is now RUNNING")
    /\ yaw_calls = [data \in BOOLEAN |-> 0]
    /\ pc = "select"
    /\ loc_arr = Zeros
    /\ goal_arr = Zeros
    /\ rd_goal = Zeros
    /\ rd_loc = Zeros
    /\ xyt_err = Zeros
    /\ vw = <<0, 0>>
    /\ ticks = 1
    /\ updates = MaxUpdates
    /\ published = 0
    /\ control_calls = 0
    /\ tick_guard = "tracking"
    /\ tick_pub = 0
    /\ tick_calls = 0
    /\ order = "goal_enable"
    /\ tick_ready = TRUE
    /\ phase = "none"
    /\ saved_goal = Zeros
    /\ tick_yaw = TRUE
    /\ raw_t = 0
    /\ raw_ulp = 0

\* Lines 113-126, step by step.
NextError ==
    \/ LoopSelect
    \/ LoopLoadGoal
    \/ LoopBaseX
    \/ LoopBaseY
    \/ LoopBaseT
    \/ LoopYaw

SpecError == InitError /\ [][NextError]_vars


\* ----------------------------------------------------------- properties

\* The tick has computed its error vector and still has it.
ErrorComputed == pc \in {"control", "publish", "sleep"} /\ tick_guard = "tracking"

\* The attribute that feeds the error, by name.
FeedbackName == IF odom_only THEN "odom" ELSE "loc"

\* A tick whose guard saw active = false or no goal goes straight to the sleep
\* with no control call and no publish; nothing is emitted before a goal is set.
IdleTick ==
    /\ tick_guard = "idle" => pc = "sleep" /\ tick_pub = 0 /\ tick_calls = 0
    /\ xyt_goal = None => published = 0 /\ control_calls = 0

\* A step taken outside a Tracking tick neither calls the control law nor
\* publishes.
IdleStep ==
    tick_guard' # "tracking" =>
        /\ published' = published
        /\ control_calls' = control_calls
        /\ control_state' = control_state
        /\ cmd_vel' = cmd_vel

\* C1  Idle emits nothing.  A tick whose guard saw active = false or no goal
\* goes straight to the sleep with no control call and no publish; no step
\* taken outside a Tracking tick calls the control law or publishes, so any
\* run of Idle ticks emits nothing; and nothing was ever emitted while no
\* goal has been set.
IdleEmitsNothing == []IdleTick /\ [][IdleStep]_vars

\* Every tick was Idle with a goal stored, and nothing was emitted.
IdleEmitsNothingWitness ==
    /\ pc = "sleep" /\ tick_guard = "idle"
    /\ ticks = MaxTicks /\ xyt_goal # None /\ ~active
    /\ published = 0 /\ control_calls = 0

\* C2  Atomic replace.  The triple of elements a tick has read from the goal
\* array, and the one read from the feedback array, is each a triple that one
\* update stored whole (or the initial zeros), whatever updates ran while the
\* elements were being read.
AtomicReplace ==
    ErrorComputed =>
        /\ rd_goal \in written.goal
        /\ rd_loc \in written[FeedbackName]

\* The feedback attribute was rebound after the tick took its array, and the
\* tick read the old triple whole.
AtomicReplaceWitness ==
    /\ ErrorComputed /\ pc = "control"
    /\ rd_loc # (IF odom_only THEN xyt_loc_odom ELSE xyt_loc)
    /\ rd_goal \in written.goal
    /\ rd_loc \in written[FeedbackName]

\* C3  Per-tick snapshot, as claimed: the goal, the feedback pose and the
\* yaw-tracking flag a tick computes its error from are the values they had
\* when the guard of the tick was evaluated.
PerTickSnapshot ==
    pc = "control" =>
        /\ rd_goal = snap.goal
        /\ rd_loc = snap.fb
        /\ tick_yaw = snap.yaw

\* C4  Tracking to Idle is immediate, as claimed: no command is published
\* while active is false, that is after a disable() has returned and before
\* the next enable().
NoPublishAfterDisable == [][published' # published => active]_vars

\* C5  One command per Tracking tick.  A tick whose guard saw active and a
\* goal ends with exactly one control call and exactly one publish; no tick
\* has more than one of either, the publish follows the control call, and
\* the commands published never outnumber the ticks.
OneCommandPerTick ==
    /\ pc = "sleep" /\ tick_guard = "tracking" => tick_pub = 1 /\ tick_calls = 1
    /\ tick_pub <= tick_calls
    /\ tick_calls <= 1
    /\ published <= ticks
    /\ control_calls = published + (IF pc = "publish" THEN 1 ELSE 0)

\* Every tick was a Tracking tick and published once.
OneCommandPerTickWitness ==
    /\ pc = "sleep" /\ tick_guard = "tracking" /\ tick_pub = 1
    /\ ticks = MaxTicks /\ published = MaxTicks

\* C6  Idle to Tracking is order-independent.  A tick that began after a goal
\* update and an enable() had both completed, in either order, with no
\* disable() since, is a Tracking tick and publishes one command.
IdleToTracking ==
    tick_ready =>
        /\ pc \notin {"guard_active", "guard_goal"} => tick_guard = "tracking"
        /\ pc = "sleep" => tick_pub = 1

\* enable() came first, the goal second, and the next tick published.
IdleToTrackingWitness ==
    /\ tick_ready /\ order = "enable_goal"
    /\ pc = "sleep" /\ tick_guard = "tracking" /\ tick_pub = 1

\* A Tracking tick that began after disable(); enable(), with no goal update
\* since the disable(), reads the goal stored when disable() ran.
ResumedGoal ==
    phase = "ticking" /\ ErrorComputed => rd_goal = saved_goal

\* C7  Disable keeps the goal.  disable() leaves the goal as it is, and a
\* Tracking tick that began after disable(); enable(), with no goal update
\* since the disable(), computes its error against the goal that was stored
\* when disable() ran.
DisableKeepsGoal ==
    /\ [][DisableService => xyt_goal' = xyt_goal]_vars
    /\ []ResumedGoal

\* A tick after disable(); enable() tracked the goal stored before.
DisableKeepsGoalWitness ==
    /\ phase = "ticking" /\ ErrorComputed /\ pc = "publish"
    /\ rd_goal = saved_goal /\ xyt_goal = saved_goal

\* C8  Mode independence.  set_yaw_tracking leaves active as it is, for
\* either value of the flag and at both of its steps, and enable() and
\* disable() leave track_yaw as it is.
ModeIndependence ==
    [][ /\ (\E data \in BOOLEAN : SetYawTrackingService(data)) => active' = active
        /\ (\E data \in BOOLEAN : SetYawTrackingReply(data)) => active' = active
        /\ (EnableService \/ DisableService) => track_yaw' = track_yaw ]_vars

\* Yaw tracking was switched off and the controller enabled, then disabled.
ModeIndependenceWitness ==
    ~track_yaw /\ ~active /\ order = "goal" /\ phase = "disabled"

\* C9  Heading wrap.  With yaw tracking on when the flag is read, the heading
\* of the error that _compute_error_pose returns lies in (-pi, pi]: it is
\* greater than -pi and at most pi, also when the heading difference is
\* exactly pi or exactly -pi.
HeadingWrapClaimed ==
    pc = "control" /\ tick_yaw => 0 - PI < xyt_err[3] /\ xyt_err[3] <= PI

\* C10  Yaw gate.  With yaw tracking off when the flag is read, the heading
\* component of the error vector is 0 whatever the two headings are, and the
\* x and y components are those computed with yaw tracking on.
YawGateZero ==
    pc = "control" /\ ~tick_yaw =>
        /\ xyt_err[3] = 0
        /\ xyt_err[1] = ComputeErrorPose(rd_goal, rd_loc, TRUE, raw_ulp)[1]
        /\ xyt_err[2] = ComputeErrorPose(rd_goal, rd_loc, TRUE, raw_ulp)[2]
        /\ xyt_err[1] = Cos(rd_loc[3]) * (rd_goal[1] - rd_loc[1])
                        + Sin(rd_loc[3]) * (rd_goal[2] - rd_loc[2])

\* The headings differed, the goal was off the robot's axis, and the gated
\* error kept its position part and had heading 0.
YawGateZeroWitness ==
    /\ pc = "control" /\ ~tick_yaw
    /\ raw_t # 0 /\ xyt_err[1] # 0 /\ xyt_err[2] # 0 /\ xyt_err[3] = 0

\* The state of the controller object: its attributes, the state of its
\* control law and the command last sent.
controller == <<xyt_loc, xyt_loc_odom, xyt_goal, active, track_yaw, odom_only,
                control_state, cmd_vel>>

\* C11  Mode handlers are idempotent and always succeed.  enable(), disable()
\* and set_yaw_tracking(flag) reply success = true from every state; each
\* stores its value (active = true, active = false, track_yaw = flag) and
\* nothing else, so a call made when the flag already has that value, as
\* the second of two calls in a row has it, leaves the state of the controller
\* as it is; and a call of enable() or disable() that repeats the service call
\* before it returns the same reply and changes nothing.
ModeHandlersIdempotent ==
    [][ /\ EnableService =>
              /\ response'.success /\ active'
              /\ active => UNCHANGED controller
              /\ response = response' => UNCHANGED controller
        /\ DisableService =>
              /\ response'.success /\ ~active'
              /\ ~active => UNCHANGED controller
              /\ response = response' => UNCHANGED controller
        /\ \A data \in BOOLEAN :
              /\ SetYawTrackingService(data) =>
                    /\ track_yaw' = data
                    /\ track_yaw = data => UNCHANGED controller
              /\ SetYawTrackingReply(data) =>
                    /\ response'.success
                    /\ UNCHANGED controller ]_vars

\* enable() was the last service call, it replied success, and the controller
\* is active with a goal: the state from which enable() is called again.
ModeHandlersIdempotentWitness ==
    /\ response = TriggerResponse(TRUE, "Goto controller is now RUNNING")
    /\ response.success /\ active /\ xyt_goal # None /\ ~track_yaw

\* C12  Feedback source selection.  The array a Tracking tick takes at line
\* 117, and so the pose it computes its error from, is the odometry estimate
\* when odom_only is set and the localization estimate otherwise; odom_only
\* never changes; and an update of the estimate that is not selected changes
\* neither the array the tick holds, nor what it has read or computed, nor the
\* control state, nor the command on the channel.
FeedbackSelection ==
    /\ [][ /\ odom_only' = odom_only
           /\ LoopSelect =>
                 loc_arr' = (IF odom_only THEN xyt_loc_odom ELSE xyt_loc)
           /\ (\E m \in Msgs : IF odom_only THEN PoseUpdate(m) ELSE OdomUpdate(m)) =>
                 UNCHANGED <<loc_arr, rd_loc, xyt_err, vw, outputs>> ]_vars
    /\ [](ErrorComputed => rd_loc \in written[IF odom_only THEN "odom" ELSE "loc"])

\* With odometry-only feedback, the localization estimate was updated and the
\* tick computed its error from the odometry estimate and published.
FeedbackSelectionWitness ==
    /\ odom_only /\ xyt_loc # Zeros /\ xyt_loc # xyt_loc_odom
    /\ pc = "sleep" /\ tick_guard = "tracking" /\ tick_pub = 1
    /\ rd_loc = xyt_loc_odom

\* C13  Goal update is unconditional.  A goal message is accepted in every
\* state in which a message can be delivered, active or not, goal stored or
\* not; the handler stores the converted pose as the goal and leaves both
\* estimates, active and track_yaw as they are.
GoalUpdateUnconditional ==
    /\ [][ \A m \in Msgs :
             GoalUpdate(m) =>
                 /\ xyt_goal' = sophus2xyt(m)
                 /\ UNCHANGED <<xyt_loc, xyt_loc_odom, active, track_yaw>> ]_vars
    /\ [](~shutdown /\ updates < MaxUpdates =>
             \A m \in Msgs : ENABLED GoalUpdate(m))

\* A stored goal was replaced while the controller was not active.
GoalUpdateUnconditionalWitness ==
    /\ ~active /\ order = "goal" /\ Cardinality(written.goal) = 2
    /\ xyt_goal \in written.goal /\ xyt_loc = Zeros /\ xyt_loc_odom = Zeros

\* C14  No stop command on disable.  disable() publishes nothing and leaves
\* the command on the channel as it is; the only step that publishes or
\* changes that command is the publish of a Tracking tick, which sends the
\* pair the control law returned, so no zero command is sent on the way to
\* Idle and the last command of the last Tracking tick stays on the channel.
NoStopOnDisable ==
    [][ /\ DisableService => UNCHANGED <<cmd_vel, published>>
        /\ (published' # published \/ cmd_vel' # cmd_vel) =>
              /\ pc = "publish" /\ tick_guard = "tracking"
              /\ cmd_vel' = Twist(vw[1], vw[2]) ]_vars

\* After disable() an Idle tick has run, and the non-zero command of the last
\* Tracking tick is still the last one on the channel.
NoStopOnDisableWitness ==
    /\ ~active /\ pc = "sleep" /\ tick_guard = "idle"
    /\ published = 1 /\ cmd_vel # Twist(0, 0)

\* C16  Control-law coupling.  The control law is called, and its state
\* changes, only at line 143 of a Tracking tick; the command published by a
\* tick has the v returned by the control call of that tick as linear x and
\* the w as angular z; enable() and disable() leave the state of the control
\* law as it is.
ControlCoupling ==
    [][ /\ (control_calls' # control_calls \/ control_state' # control_state) =>
              /\ LoopControl /\ tick_guard = "tracking"
              /\ vw' = Control(control_state, xyt_err)
        /\ published' # published =>
              /\ tick_calls = 1
              /\ cmd_vel'.linear_x = vw[1]
              /\ cmd_vel'.angular_z = vw[2]
        /\ (EnableService \/ DisableService) =>
              UNCHANGED <<control_state, control_calls>> ]_vars

\* Two ticks published, the second a command with v different from w, and a
\* disable() that followed left the state of the control law as it was.
ControlCouplingWitness ==
    /\ published = 2 /\ pc = "sleep" /\ ~active
    /\ cmd_vel = Twist(vw[1], vw[2]) /\ vw[1] # vw[2]
    /\ control_state = vw

\* C17  Pose handlers overwrite only their own estimate.  A pose update stores
\* the converted pose as the localization estimate, an odometry update stores
\* it as the odometry estimate; neither changes the other estimate, the goal,
\* active or track_yaw; and no other step changes an estimate, so each
\* estimate is the value its own stream delivered last.
PoseHandlersFrame ==
    /\ [][ /\ \A m \in Msgs :
                 PoseUpdate(m) =>
                     /\ xyt_loc' = sophus2xyt(m)
                     /\ UNCHANGED <<xyt_loc_odom, xyt_goal, active, track_yaw>>
           /\ \A m \in Msgs :
                 OdomUpdate(m) =>
                     /\ xyt_loc_odom' = sophus2xyt(m)
                     /\ UNCHANGED <<xyt_loc, xyt_goal, active, track_yaw>>
           /\ xyt_loc' # xyt_loc => \E m \in Msgs : PoseUpdate(m)
           /\ xyt_loc_odom' # xyt_loc_odom => \E m \in Msgs : OdomUpdate(m) ]_vars
    /\ [](xyt_loc \in written.loc /\ xyt_loc_odom \in written.odom)

\* Both estimates were updated, to different poses, with no goal stored.
PoseHandlersFrameWitness ==
    /\ xyt_loc # Zeros /\ xyt_loc_odom # Zeros /\ xyt_loc # xyt_loc_odom
    /\ xyt_goal = None /\ ~active /\ track_yaw

\* C18  Tracking is live and has no terminal state.  With the control-loop
\* thread scheduled weakly fairly: if from some point on active stays true, a
\* goal is stored and the process is not shut down, a command is published
\* again and again; and the loop is at its exit only when shutdown was seen.
TrackingLive ==
    /\ <>[](active /\ xyt_goal # None /\ ~shutdown) =>
           []<>(pc = "sleep" /\ tick_pub = 1)
    /\ [](pc = "exit" => shutdown)

\* The count of ticks has started again, a command of an earlier tick is on
\* the channel, and the first tick of the new count is about to publish.
TrackingLiveWitness ==
    /\ pc = "publish" /\ ticks = 1 /\ published = 0
    /\ cmd_vel # Twist(0, 0) /\ active /\ xyt_goal # None /\ ~shutdown

\* C19  Goal presence is monotonic.  The controller starts with no goal, not
\* active and with yaw tracking on; no step takes a stored goal away, and only
\* a goal update stores the first one; only enable() makes the controller
\* active; _compute_error_pose runs with a goal stored and reads a goal array;
\* and a tick passes the guard, and so publishes, only after a goal update
\* and an enable().
GoalPresenceMonotonic ==
    /\ xyt_goal = None
    /\ active = FALSE
    /\ track_yaw = TRUE
    /\ [][ /\ xyt_goal # None => xyt_goal' # None
           /\ (xyt_goal = None /\ xyt_goal' # None) => \E m \in Msgs : GoalUpdate(m)
           /\ (~active /\ active') => EnableService
           /\ (LoopGuardActive /\ pc' = "guard_goal") =>
                 order \in {"enable", "goal_enable", "enable_goal"}
           /\ published' # published => tick_guard = "tracking" ]_vars
    /\ []( /\ (pc \in {"select", "load_goal"} \/ HoldsGoal) => xyt_goal # None
           /\ HoldsGoal => goal_arr # None
           /\ tick_guard = "tracking" => written.goal # {}
           /\ published > 0 => xyt_goal # None )

\* Commands were published, the goal was replaced and the controller then
\* disabled: the goal is still stored.
GoalPresenceMonotonicWitness ==
    /\ published > 0 /\ ~active /\ order = "goal"
    /\ Cardinality(written.goal) = 2 /\ xyt_goal # None

WrapPreservesAngle ==
    pc = "control" /\ tick_yaw =>
        /\ (xyt_err[3] - (rd_goal[3] - rd_loc[3])) % (2 * PI) = 0
        /\ WrapAngle(xyt_err[3], 0) = xyt_err[3]

====
